---- MODULE Spec2Model ----
(***************************************************************************)
(* A model of the two Streamlit dashboard variants of this repository:     *)
(*   "G"  src/Globlal_Dashboard.py                                         *)
(*   "T"  src/test_version.py                                              *)
(* One interaction is one run of main(): load_data() (cached), the sidebar *)
(* filters, calculate_kpis(filtered_df), the KPI display loop and the      *)
(* plot_* functions in the order main() calls them.                        *)
(*                                                                         *)
(* Dates are day numbers.  A CSV date is Str(d); pd.to_datetime turns it   *)
(* into the timestamp Ts(d).  A rounded float is kept in hundredths        *)
(* (Dec2(1234) is 12.34); NaN and Inf are values of their own.  A table is *)
(* [cols, rows]: the set of column labels and the sequence of rows, each   *)
(* row a record over cols.                                                 *)
(***************************************************************************)
EXTENDS Integers, Sequences, FiniteSets, TLC

\* ---------------------------------------------------------------- bounds
MaxRows == 2
MaxDay == 2
MaxNights == 2
MonthLen == 2
DefaultLead == 1
MaxEditRows == 1

\* ---------------------------------------------------------------- values
Str(d) == [t |-> "str", d |-> d]
Ts(d) == [t |-> "ts", d |-> d]
Cell(v) == [k |-> "val", v |-> v]
Null == [k |-> "nan", v |-> 0]
Dec2(h) == [k |-> "num", v |-> h]
NaN == [k |-> "nan", v |-> 0]
Inf == [k |-> "inf", v |-> 0]
Frac(n, d) == [k |-> "frac", n |-> n, d |-> d]

Properties == {"A", "B"}
Platforms == {"airbnb", "vrbo"}
Statuses == {"confirmed", "cancelled"}
RatingCols ==
    {"rating", "value_rating", "communication_rating", "location_rating",
     "cleanliness_rating", "accuracy_rating", "checkin_rating"}
BookingCols ==
    {"code", "property_name", "platform", "status", "checkin_date",
     "checkout_date", "booking_date", "nights", "revenue"}

\* Lexicographic order of the labels, as groupby(sort=True) orders its keys.
LabelRank ==
    [l \in Properties \cup Platforms |->
        CASE l = "A" -> 1 [] l = "B" -> 2 [] l = "airbnb" -> 3 [] OTHER -> 4]

RECURSIVE SumSeq(_)
SumSeq(s) == IF s = <<>> THEN 0 ELSE Head(s) + SumSeq(Tail(s))

Range(s) == {s[i] : i \in 1..Len(s)}
SetMax(S) == CHOOSE x \in S : \A y \in S : y <= x
SetMin(S) == CHOOSE x \in S : \A y \in S : x <= y
SeqsUpTo(S, n) == UNION {[1..k -> S] : k \in 0..n}

\* ------------------------------------------------- the two source files
\* The days from check-in to check-out of a pool row: its nights, unless
\* the row states a stay of its own (a file whose dates are out of order).
Stay(s) == IF "stay" \in DOMAIN s THEN s.stay ELSE s.nights

\* A booking of the CSV pool: code i, checkout = checkin + stay, booked
\* DefaultLead days ahead; review is "none" or the name of a review.
Booking(i, s) ==
    [code |-> i, property_name |-> s.prop, platform |-> s.plat,
     status |-> s.status, checkin_date |-> Str(s.checkin),
     checkout_date |-> Str(s.checkin + Stay(s)),
     booking_date |-> Str(s.checkin - DefaultLead),
     nights |-> s.nights, revenue |-> s.revenue]

ReviewRow(i, kind) ==
    LET a == IF kind = "hi" THEN 5 ELSE 2
        b == IF kind = "hi" THEN 4 ELSE 3
    IN  [code |-> i, rating |-> Cell(a), value_rating |-> Cell(b),
         communication_rating |-> Cell(a), location_rating |-> Cell(b),
         cleanliness_rating |-> Cell(a), accuracy_rating |-> Cell(b),
         checkin_rating |-> Cell(a)]

MkFiles(specs) ==
    LET tagged == [i \in 1..Len(specs) |-> [code |-> i, kind |-> specs[i].review]]
        with == SelectSeq(tagged, LAMBDA e : e.kind # "none")
    IN  [bookings |-> [i \in 1..Len(specs) |-> Booking(i, specs[i])],
         reviews |-> [j \in 1..Len(with) |-> ReviewRow(with[j].code, with[j].kind)]]

RowSpec(prop, plat, status, checkin, nights, revenue, review) ==
    [prop |-> prop, plat |-> plat, status |-> status, checkin |-> checkin,
     nights |-> nights, revenue |-> revenue, review |-> review]

\* Families of inputs: each varies the fields one group of operations reads.
FilterRows ==
    {RowSpec(p, q, "confirmed", d, 1, 100, "hi") :
        p \in Properties, q \in Platforms, d \in {1, MaxDay}}
ArithRows ==
    {RowSpec("A", "airbnb", "confirmed", 1, n, r, "hi") :
        n \in 0..MaxNights, r \in {0, 100}}
PlatformRows ==
    {RowSpec("A", q, st, 1, n, 100 * n, "hi") :
        q \in Platforms, st \in Statuses, n \in {1, MaxNights}}
ReviewRows ==
    {RowSpec("A", "airbnb", st, 1, 1, 100, rv) :
        st \in Statuses, rv \in {"none", "hi", "lo"}}
MonthRows ==
    {RowSpec(p, "airbnb", st, d, 2, 100, "hi") :
        p \in Properties, st \in Statuses, d \in {1, MonthLen + 1}}
\* Rows whose check-out may lie before their check-in.
SpanRows ==
    {RowSpec(p, "airbnb", "confirmed", d, 1, 100, "hi") @@ ("stay" :> st) :
        p \in Properties, d \in {1, 2}, st \in {-1, 0}}
\* The 3-booking scenario of the specification's testable properties.
Scenario ==
    <<RowSpec("A", "airbnb", "confirmed", 1, 2, 100, "hi"),
      RowSpec("A", "airbnb", "cancelled", 1, 2, 200, "none"),
      RowSpec("B", "vrbo", "confirmed", 1, 3, 150, "hi")>>
InputSpecs ==
    SeqsUpTo(FilterRows, MaxRows) \cup SeqsUpTo(ArithRows, MaxRows)
    \cup SeqsUpTo(PlatformRows, MaxRows) \cup SeqsUpTo(ReviewRows, MaxRows)
    \cup SeqsUpTo(MonthRows, MaxRows) \cup SeqsUpTo(SpanRows, MaxRows)
    \cup {Scenario}
Inputs == {MkFiles(s) : s \in InputSpecs}

\* ------------------------------------------------------------- load_data
to_datetime(x) == IF x.t = "str" THEN Ts(x.d) ELSE x
MonthStart(d) == ((d - 1) \div MonthLen) * MonthLen + 1
SeriesDiv(a, b) == IF b # 0 THEN Frac(a, b) ELSE IF a = 0 THEN NaN ELSE Inf

ReviewFields(rv) == [c \in RatingCols |-> rv[c]]
NoReview == [c \in RatingCols |-> Null]

\* pd.merge(bookings, reviews_subset, on='code', how='left'): bookings in
\* order, one output row per matching review, a null-filled row when none.
RECURSIVE Merge(_, _)
Merge(bookings, reviews) ==
    IF bookings = <<>> THEN <<>>
    ELSE LET b == Head(bookings)
             m == SelectSeq(reviews, LAMBDA rv : rv.code = b.code)
             out == IF m = <<>> THEN <<b @@ NoReview>>
                    ELSE [i \in 1..Len(m) |-> b @@ ReviewFields(m[i])]
         IN  out \o Merge(Tail(bookings), reviews)

ParseDates(r) ==
    [r EXCEPT !.checkin_date = to_datetime(r.checkin_date),
              !.checkout_date = to_datetime(r.checkout_date)]
WithMonth(r) == r @@ ("month" :> Ts(MonthStart(r.checkin_date.d)))
WithNightlyRate(r) == r @@ ("nightly_rate" :> SeriesDiv(r.revenue, r.nights))

ReadAndJoin(v, f) ==
    LET merged == Merge(f.bookings, f.reviews)
        dated == [i \in 1..Len(merged) |-> WithMonth(ParseDates(merged[i]))]
    IN  IF v = "G"
        THEN [cols |-> BookingCols \cup RatingCols \cup {"month", "nightly_rate"},
              rows |-> [i \in 1..Len(dated) |-> WithNightlyRate(dated[i])]]
        ELSE [cols |-> BookingCols \cup RatingCols \cup {"month"},
              rows |-> dated]

NoTable == [cols |-> {}, rows |-> <<>>]
NoCache == [set |-> FALSE, val |-> NoTable]

\* ------------------------------------------------------ filter (main)
\* A variant of InRange with the end of the range exclusive.
InRangeEndExclusive(r, d0, d1) == r.checkin_date.d >= d0 /\ r.checkin_date.d < d1

InRange(r, d0, d1) == r.checkin_date.d >= d0 /\ r.checkin_date.d <= d1

IsIn(r, c, chosen) == r[c] \in chosen

\* filtered_df = df[(checkin_date >= d0) & (checkin_date <= d1)], then the
\* platform and the property selection, each applied only when non-empty.
\* Boolean indexing builds a new table: df itself is left as it is.
ApplyFilters(t, d0, d1, P, Q) ==
    LET byDate == SelectSeq(t.rows, LAMBDA r : InRange(r, d0, d1))
        byPlatform == IF P # {} THEN SelectSeq(byDate, LAMBDA r : IsIn(r, "platform", P))
                      ELSE byDate
        byProperty == IF Q # {} THEN SelectSeq(byPlatform, LAMBDA r : IsIn(r, "property_name", Q))
                      ELSE byPlatform
    IN  [cols |-> t.cols, rows |-> byProperty]

Unique(t, c) == {t.rows[i][c] : i \in 1..Len(t.rows)}
MinDate(t) == SetMin({t.rows[i].checkin_date.d : i \in 1..Len(t.rows)})
MaxDate(t) == SetMax({t.rows[i].checkout_date.d : i \in 1..Len(t.rows)})

NoSel == [d0 |-> 0, d1 |-> 0, P |-> {}, Q |-> {}]

\* ---------------------------------------------------------- calculate_kpis
IntVal(n) == [k |-> "int", v |-> n]

\* n / d rounded to the nearest integer, d > 0.  A tie goes to the even
\* neighbour, as round() does on a float that is exactly representable; no
\* quotient of the inputs drawn here is a tie.
RoundHalfEven(n, d) ==
    LET q == n \div d
        r == n - q * d
    IN  IF 2 * r < d THEN q
        ELSE IF 2 * r > d THEN q + 1
        ELSE IF q % 2 = 0 THEN q ELSE q + 1

\* round(n / d, 2) in hundredths, n a numpy integer: a zero divisor gives
\* nan (0 / 0) or inf with a warning, never an exception.
NpRound2(n, d) ==
    IF d = 0 THEN (IF n = 0 THEN NaN ELSE Inf)
    ELSE Dec2(RoundHalfEven(n * 100, d))

\* Series.mean() over the non-null cells, rounded to 2 decimals: nan when
\* there is none.
MeanRound2(vals) ==
    IF vals = <<>> THEN NaN ELSE Dec2(RoundHalfEven(SumSeq(vals) * 100, Len(vals)))

Col(t, c) == [i \in 1..Len(t.rows) |-> t.rows[i][c]]
TotalNights(t) == SumSeq(Col(t, "nights"))
TotalRevenue(t) == SumSeq(Col(t, "revenue"))
NumProperties(t) == Cardinality(Unique(t, "property_name"))

\* A variant of PeriodDays that counts the days between the two dates
\* without the first one.
PeriodDaysExclusive(t) ==
    IF t.rows = <<>> THEN NaN ELSE IntVal(MaxDate(t) - MinDate(t))

\* (checkout_date.max() - checkin_date.min()).days + 1; max() and min() of
\* an empty column are NaT, whose .days is nan.
PeriodDays(t) ==
    IF t.rows = <<>> THEN NaN ELSE IntVal(MaxDate(t) - MinDate(t) + 1)

TotalAvailableNights(t) ==
    LET p == PeriodDays(t)
    IN  IF p.k = "nan" THEN NaN ELSE IntVal(p.v * NumProperties(t))

OccupancyRate(t) ==
    LET a == TotalAvailableNights(t)
    IN  IF a.k = "nan" THEN NaN ELSE NpRound2(TotalNights(t) * 100, a.v)

\* A variant of Adr guarded by the revenue instead of the nights.
AdrGuardedByRevenue(t) ==
    IF TotalRevenue(t) # 0 THEN NpRound2(TotalRevenue(t), TotalNights(t)) ELSE Dec2(0)

Adr(t) ==
    IF TotalNights(t) # 0 THEN NpRound2(TotalRevenue(t), TotalNights(t)) ELSE Dec2(0)

\* "if total_available_nights": nan is truthy, 0 is not.
RevPar(t) ==
    LET a == TotalAvailableNights(t)
    IN  IF a.k = "nan" THEN NaN
        ELSE IF a.v # 0 THEN NpRound2(TotalRevenue(t), a.v) ELSE Dec2(0)

LeadDays(r) == r.checkin_date.d - to_datetime(r.booking_date).d
LeadTime(t) == MeanRound2([i \in 1..Len(t.rows) |-> LeadDays(t.rows[i])])
AverageLengthOfStay(t) == MeanRound2(Col(t, "nights"))

NonNull(cells) ==
    LET kept == SelectSeq(cells, LAMBDA x : x.k # "nan")
    IN  [i \in 1..Len(kept) |-> kept[i].v]

RatingAverage(t, c) ==
    IF c \in t.cols THEN MeanRound2(NonNull(Col(t, c))) ELSE Dec2(0)

\* A variant of CanceledReservations with the comparison inverted.
CanceledReservationsInverted(t) ==
    Len(SelectSeq(t.rows, LAMBDA r : r.status # "cancelled"))

CanceledReservations(t) ==
    Len(SelectSeq(t.rows, LAMBDA r : r.status = "cancelled"))

\* round((canceled / total) * 100, 2) on two Python ints: a zero total
\* raises ZeroDivisionError.
CancellationRate(t) ==
    IF Len(t.rows) = 0 THEN [k |-> "raise", v |-> 0]
    ELSE Dec2(RoundHalfEven(CanceledReservations(t) * 100 * 100, Len(t.rows)))

\* What calculate_kpis leaves in the table it was given: booking_date is
\* overwritten by its parsed value and, in variant G, a lead_time column is
\* added: first the rounded timedelta, then, its dtype not being int64,
\* the whole days.
ParseBookingDate(r) == [r EXCEPT !.booking_date = to_datetime(r.booking_date)]
WithLeadTime(r) == r @@ ("lead_time" :> LeadDays(r))

KpisTableEffect(v, t) ==
    LET parsed == [i \in 1..Len(t.rows) |-> ParseBookingDate(t.rows[i])]
    IN  IF v = "G"
        THEN [cols |-> t.cols \cup {"lead_time"},
              rows |-> [i \in 1..Len(parsed) |-> WithLeadTime(parsed[i])]]
        ELSE [cols |-> t.cols, rows |-> parsed]

KpiCommon(t) ==
    [total_revenue |-> TotalRevenue(t),
     occupancy_rate |-> OccupancyRate(t),
     adr |-> Adr(t),
     revpar |-> RevPar(t),
     lead_time |-> LeadTime(t),
     average_length_of_stay |-> AverageLengthOfStay(t),
     number_of_reservations |-> Len(t.rows),
     ratings |-> [c \in RatingCols |-> RatingAverage(t, c)]]

\* The mapping calculate_kpis returns; variant T adds the cancellation rate.
CalculateKpis(v, t) ==
    IF v = "G" THEN KpiCommon(t)
    ELSE KpiCommon(t) @@ ("cancellation_rate" :> CancellationRate(t))

KpisRaise(v, t) == v = "T" /\ CancellationRate(t).k = "raise"

NoKpis == [none |-> TRUE]

\* ------------------------------------------------------------ plot_*
RECURSIVE SortByRank(_, _)
SortByRank(S, rank) ==
    IF S = {} THEN <<>>
    ELSE LET m == CHOOSE x \in S : \A y \in S : rank[x] <= rank[y]
         IN  <<m>> \o SortByRank(S \ {m}, rank)

RankWidth == Cardinality(DOMAIN LabelRank) + 1
SortedLabels(S) == SortByRank(S, [l \in S |-> LabelRank[l]])

SumCol(rows, c) == SumSeq([i \in 1..Len(rows) |-> rows[i][c]])

NotCancelled(rows) == SelectSeq(rows, LAMBDA r : r.status # "cancelled")

\* A variant of RevenuePerPlatform that drops the cancelled rows first, as
\* the nights chart of variant G does.
RevenuePerPlatformNoCancelled(t) ==
    LET rows == NotCancelled(t.rows)
        keys == SortedLabels({rows[i].platform : i \in 1..Len(rows)})
    IN  [i \in 1..Len(keys) |->
            [platform |-> keys[i],
             revenue |-> SumCol(SelectSeq(rows, LAMBDA r : r.platform = keys[i]), "revenue")]]

\* df.groupby('platform')['revenue'].sum().reset_index()
RevenuePerPlatform(t) ==
    LET keys == SortedLabels(Unique(t, "platform"))
    IN  [i \in 1..Len(keys) |->
            [platform |-> keys[i],
             revenue |-> SumCol(SelectSeq(t.rows, LAMBDA r : r.platform = keys[i]), "revenue")]]

NightsGrouped(rows) ==
    LET keys == SortedLabels({rows[i].platform : i \in 1..Len(rows)})
    IN  [i \in 1..Len(keys) |->
            [platform |-> keys[i],
             nights |-> SumCol(SelectSeq(rows, LAMBDA r : r.platform = keys[i]), "nights")]]

\* plot_nights_booked_percentage_per_platform: variant G drops the
\* cancelled rows before grouping, variant T groups all rows.
NightsPerPlatform(v, t) ==
    IF v = "G" THEN NightsGrouped(NotCancelled(t.rows)) ELSE NightsGrouped(t.rows)

\* plot_stacked_revenue_by_property_platform of variant G: revenue by
\* (property, platform) and the per-property totals of the annotations.
StackedGrouped(t) ==
    LET pairs == {[property_name |-> t.rows[i].property_name,
                   platform |-> t.rows[i].platform] : i \in 1..Len(t.rows)}
        keys == SortByRank(pairs,
                    [k \in pairs |-> LabelRank[k.property_name] * RankWidth
                                     + LabelRank[k.platform]])
        bars == [i \in 1..Len(keys) |->
                    [property_name |-> keys[i].property_name,
                     platform |-> keys[i].platform,
                     revenue |-> SumCol(SelectSeq(t.rows,
                                    LAMBDA r : /\ r.property_name = keys[i].property_name
                                               /\ r.platform = keys[i].platform), "revenue")]]
        props == SortedLabels(Unique(t, "property_name"))
    IN  [bars |-> bars,
         totals |-> [i \in 1..Len(props) |->
                        [property_name |-> props[i],
                         revenue |-> SumCol(SelectSeq(bars,
                                        LAMBDA e : e.property_name = props[i]), "revenue")]]]

\* The same chart in variant T: px.bar over the rows as they are.
StackedRaw(t) ==
    [bars |-> [i \in 1..Len(t.rows) |->
                  [property_name |-> t.rows[i].property_name,
                   platform |-> t.rows[i].platform,
                   revenue |-> t.rows[i].revenue]],
     totals |-> <<>>]

StackedRevenue(v, t) == IF v = "G" THEN StackedGrouped(t) ELSE StackedRaw(t)

\* The three monthly plots of variant T first write checkin_date,
\* checkout_date and month back into the table they were given.
PlotDatesEffect(t) ==
    [cols |-> t.cols \cup {"month"},
     rows |-> [i \in 1..Len(t.rows) |->
                  [ParseDates(t.rows[i]) EXCEPT
                      !.month = Ts(MonthStart(t.rows[i].checkin_date.d))]]]

MonthKeys(rows) ==
    LET keys == {[month |-> rows[i].month, property_name |-> rows[i].property_name] :
                    i \in 1..Len(rows)}
    IN  SortByRank(keys,
            [k \in keys |-> k.month.d * RankWidth + LabelRank[k.property_name]])

InGroup(r, key) == r.month = key.month /\ r.property_name = key.property_name

\* df.groupby(['month', 'property_name'])['revenue'].sum().reset_index()
MonthlyRevenue(t) ==
    LET rows == PlotDatesEffect(t).rows
        keys == MonthKeys(rows)
    IN  [i \in 1..Len(keys) |->
            [month |-> keys[i].month, property_name |-> keys[i].property_name,
             revenue |-> SumCol(SelectSeq(rows, LAMBDA r : InGroup(r, keys[i])), "revenue")]]

\* plot_monthly_occupancy_rate: cancelled rows are dropped, then per group
\* nights.sum() / ((checkout_date.max() - checkin_date.min()).days + 1).
MonthlyOccupancy(t) ==
    LET rows == NotCancelled(PlotDatesEffect(t).rows)
        keys == MonthKeys(rows)
    IN  [i \in 1..Len(keys) |->
            LET g == SelectSeq(rows, LAMBDA r : InGroup(r, keys[i]))
                span == MaxDate([rows |-> g]) - MinDate([rows |-> g]) + 1
            IN  [month |-> keys[i].month, property_name |-> keys[i].property_name,
                 nights |-> SumSeq([j \in 1..Len(g) |-> g[j].nights]),
                 occupancy_rate |->
                     SeriesDiv(SumSeq([j \in 1..Len(g) |-> g[j].nights]), span)]]

\* plot_monthly_adr_line: revenue and nights summed per group over the
\* rows it is given, adr = revenue / nights.
MonthlyAdr(t) ==
    LET rows == PlotDatesEffect(t).rows
        keys == MonthKeys(rows)
    IN  [i \in 1..Len(keys) |->
            LET rev == SumCol(SelectSeq(rows, LAMBDA r : InGroup(r, keys[i])), "revenue")
                nts == SumCol(SelectSeq(rows, LAMBDA r : InGroup(r, keys[i])), "nights")
            IN  [month |-> keys[i].month, property_name |-> keys[i].property_name,
                 revenue |-> rev, nights |-> nts, adr |-> SeriesDiv(rev, nts)]]

NoCharts ==
    [fig1 |-> <<>>, fig2 |-> <<>>, fig3 |-> <<>>, fig4 |-> [bars |-> <<>>, totals |-> <<>>],
     fig5 |-> <<>>, fig6 |-> <<>>, fig7 |-> <<>>]

\* ------------------------------------------------------------------ state
VARIABLES variant, files, cache, reads, df, firstLoad, sel, filtered_df,
          kpis, charts, pc, err

vars == <<variant, files, cache, reads, df, firstLoad, sel, filtered_df,
          kpis, charts, pc, err>>

Init ==
    /\ variant \in {"G", "T"}
    /\ files \in Inputs
    /\ cache = NoCache
    /\ reads = 0
    /\ df = NoTable
    /\ firstLoad = NoTable
    /\ sel = NoSel
    /\ filtered_df = NoTable
    /\ kpis = NoKpis
    /\ charts = NoCharts
    /\ pc = "idle"
    /\ err = "none"

\* A variant of LoadCached without the cache: every call reads the files.
LoadUncached(c, v, f) ==
    LET t == ReadAndJoin(v, f)
    IN  [val |-> t, cache |-> [set |-> TRUE, val |-> t], read |-> 1]

\* @st.cache_data load_data(): the body runs on a miss and its value is
\* stored; a hit returns a copy of the stored value and reads no file.
LoadCached(c, v, f) ==
    IF c.set THEN [val |-> c.val, cache |-> c, read |-> 0]
    ELSE LET t == ReadAndJoin(v, f)
         IN  [val |-> t, cache |-> [set |-> TRUE, val |-> t], read |-> 1]

\* main(): df = load_data()
Load ==
    /\ pc = "idle"
    /\ LET r == LoadCached(cache, variant, files)
       IN  /\ df' = r.val
           /\ cache' = r.cache
           /\ reads' = reads + r.read
           /\ firstLoad' = IF cache.set THEN firstLoad ELSE r.val
    /\ pc' = "loaded"
    /\ UNCHANGED <<variant, files, sel, filtered_df, kpis, charts, err>>

\* main(): df.empty, "No data loaded."
NoData ==
    /\ pc = "loaded"
    /\ df.rows = <<>>
    /\ pc' = "done"
    /\ UNCHANGED <<variant, files, cache, reads, df, firstLoad, sel, filtered_df,
                   kpis, charts, err>>

\* main(): the sidebar widgets and the three filters.  The date range lies
\* within [min checkin, max checkout]; the multiselects offer the values
\* present in df.
Filter ==
    /\ pc = "loaded"
    /\ df.rows # <<>>
    /\ \E d0 \in MinDate(df)..MaxDate(df), P \in SUBSET Unique(df, "platform"),
          Q \in SUBSET Unique(df, "property_name") :
         \E d1 \in d0..MaxDate(df) :
            /\ sel' = [d0 |-> d0, d1 |-> d1, P |-> P, Q |-> Q]
            /\ filtered_df' = ApplyFilters(df, d0, d1, P, Q)
    /\ pc' = "filtered"
    /\ UNCHANGED <<variant, files, cache, reads, df, firstLoad, kpis, charts, err>>

\* main(): st.date_input returns a 1-tuple while the user has picked only
\* the start of the range, and selected_dates[1] raises IndexError.
FilterPartialRange ==
    /\ pc = "loaded"
    /\ df.rows # <<>>
    /\ err' = "IndexError"
    /\ pc' = "error"
    /\ UNCHANGED <<variant, files, cache, reads, df, firstLoad, sel, filtered_df,
                   kpis, charts>>

\* main(): kpis = calculate_kpis(filtered_df).  The function writes into the
\* table before it computes the cancellation rate, so the table is changed
\* also when that raises.  The widget values are not read after this point
\* and are dropped from the state here.
CalcKpis ==
    /\ pc = "filtered"
    /\ filtered_df' = KpisTableEffect(variant, filtered_df)
    /\ IF KpisRaise(variant, filtered_df)
       THEN /\ kpis' = NoKpis
            /\ err' = "ZeroDivisionError"
            /\ pc' = "error"
       ELSE /\ kpis' = CalculateKpis(variant, filtered_df)
            /\ err' = err
            /\ pc' = "kpis"
    /\ sel' = NoSel
    /\ UNCHANGED <<variant, files, cache, reads, df, firstLoad, charts>>

HasNaNRating(k) == \E c \in RatingCols : k.ratings[c].k = "nan"

\* main(): the metric / progress loop.  Variant T computes
\* int((value / 5.0) * 100), which raises ValueError on nan.
DisplayKpisT ==
    /\ pc = "kpis"
    /\ variant = "T"
    /\ IF HasNaNRating(kpis)
       THEN err' = "ValueError" /\ pc' = "error"
       ELSE err' = err /\ pc' = "shown"
    /\ UNCHANGED <<variant, files, cache, reads, df, firstLoad, sel, filtered_df,
                   kpis, charts>>

\* Variant G hands float(value) / 5.0 to st.progress; what the widget does
\* with nan is the library's choice: it either rejects the value or draws.
DisplayKpisG ==
    /\ pc = "kpis"
    /\ variant = "G"
    /\ \/ err' = err /\ pc' = "shown"
       \/ HasNaNRating(kpis) /\ err' = "StreamlitAPIException" /\ pc' = "error"
    /\ UNCHANGED <<variant, files, cache, reads, df, firstLoad, sel, filtered_df,
                   kpis, charts>>

Plotted(from, to, fig, series, table) ==
    /\ pc = from
    /\ charts' = [charts EXCEPT ![fig] = series]
    /\ filtered_df' = table
    /\ pc' = to
    /\ UNCHANGED <<variant, files, cache, reads, df, firstLoad, sel, kpis, err>>

\* fig1 = plot_revenue_per_platform(filtered_df)           (variant G only)
PlotRevenuePerPlatform ==
    /\ variant = "G"
    /\ Plotted("shown", "fig1", "fig1", RevenuePerPlatform(filtered_df), filtered_df)

\* fig2 = plot_revenue_percentage_per_platform(filtered_df)
PlotRevenuePercentage ==
    Plotted(IF variant = "G" THEN "fig1" ELSE "shown", "fig2", "fig2",
            RevenuePerPlatform(filtered_df), filtered_df)

\* fig3 = plot_nights_booked_percentage_per_platform(filtered_df)
PlotNightsBooked ==
    Plotted("fig2", "fig3", "fig3", NightsPerPlatform(variant, filtered_df), filtered_df)

\* fig4 = plot_stacked_revenue_by_property_platform(filtered_df)
PlotStackedRevenue ==
    Plotted("fig3", "fig4", "fig4", StackedRevenue(variant, filtered_df), filtered_df)

\* fig5 = plot_monthly_revenue_line(filtered_df)            (variant T only)
PlotMonthlyRevenue ==
    /\ variant = "T"
    /\ Plotted("fig4", "fig5", "fig5", MonthlyRevenue(filtered_df),
               PlotDatesEffect(filtered_df))

\* fig6 = plot_monthly_occupancy_rate(filtered_df)          (variant T only)
PlotMonthlyOccupancy ==
    /\ variant = "T"
    /\ Plotted("fig5", "fig6", "fig6", MonthlyOccupancy(filtered_df),
               PlotDatesEffect(filtered_df))

\* The same call when no row is left after the cancelled ones are dropped:
\* groupby.apply over no group may hand back a frame that reset_index(name=)
\* rejects with TypeError, depending on the pandas in use.
PlotMonthlyOccupancyRejected ==
    /\ variant = "T"
    /\ pc = "fig5"
    /\ NotCancelled(filtered_df.rows) = <<>>
    /\ filtered_df' = PlotDatesEffect(filtered_df)
    /\ err' = "TypeError"
    /\ pc' = "error"
    /\ UNCHANGED <<variant, files, cache, reads, df, firstLoad, sel, kpis, charts>>

\* fig7 = plot_monthly_adr_line(filtered_df)                (variant T only)
PlotMonthlyAdr ==
    /\ variant = "T"
    /\ Plotted("fig6", "fig7", "fig7", MonthlyAdr(filtered_df),
               PlotDatesEffect(filtered_df))

LastStep(v) == IF v = "G" THEN "fig4" ELSE "fig7"

\* The next interaction: main() runs again from the top, its locals gone.
Rerun ==
    /\ pc \in {"done", "error", LastStep(variant)}
    /\ pc' = "idle"
    /\ df' = NoTable
    /\ sel' = NoSel
    /\ filtered_df' = NoTable
    /\ kpis' = NoKpis
    /\ charts' = NoCharts
    /\ err' = "none"
    /\ UNCHANGED <<variant, files, cache, reads, firstLoad>>

\* The environment rewrites the source files between two interactions
\* (here: files of at most MaxEditRows bookings, both emptied).
FileChange ==
    /\ pc = "idle"
    /\ files.bookings # <<>>
    /\ Len(files.bookings) <= MaxEditRows
    /\ files' = [bookings |-> <<>>, reviews |-> <<>>]
    /\ UNCHANGED <<variant, cache, reads, df, firstLoad, sel, filtered_df,
                   kpis, charts, pc, err>>

Next ==
    \/ Load
    \/ NoData
    \/ Filter
    \/ FilterPartialRange
    \/ CalcKpis
    \/ DisplayKpisT
    \/ DisplayKpisG
    \/ PlotRevenuePerPlatform
    \/ PlotRevenuePercentage
    \/ PlotNightsBooked
    \/ PlotStackedRevenue
    \/ PlotMonthlyRevenue
    \/ PlotMonthlyOccupancy
    \/ PlotMonthlyOccupancyRejected
    \/ PlotMonthlyAdr
    \/ Rerun
    \/ FileChange

Spec == Init /\ [][Next]_vars

\* ------------------------------------------------------------------ C1
Keeps(r, s) ==
    /\ s.d0 <= r.checkin_date.d
    /\ r.checkin_date.d <= s.d1
    /\ (s.P = {} \/ r.platform \in s.P)
    /\ (s.Q = {} \/ r.property_name \in s.Q)

\* C1: after main() has applied the filters, filtered_df holds exactly the
\* rows of df with d0 <= checkin_date <= d1 that satisfy (P empty or
\* platform in P) and (Q empty or property_name in Q), in df's order and
\* with df's columns; so an empty P or Q keeps all rows.
C1_FilterExact ==
    pc = "filtered" =>
        LET kept == {i \in 1..Len(df.rows) : Keeps(df.rows[i], sel)}
        IN  /\ filtered_df.cols = df.cols
            /\ Len(filtered_df.rows) = Cardinality(kept)
            /\ \A i \in kept :
                 \E j \in 1..Len(filtered_df.rows) : filtered_df.rows[j] = df.rows[i]
            /\ \A j \in 1..Len(filtered_df.rows) :
                 \E i \in kept : filtered_df.rows[j] = df.rows[i]
            /\ \A j, k \in 1..Len(filtered_df.rows) :
                 j < k => filtered_df.rows[j].code < filtered_df.rows[k].code

\* A filter with no platform selected and a single property selected has
\* kept some rows and dropped others, and a row of the base table checks
\* in on the last day of the range.
C1_Witness ==
    /\ pc = "filtered"
    /\ sel.P = {}
    /\ Cardinality(sel.Q) = 1
    /\ Len(filtered_df.rows) >= 1
    /\ Len(filtered_df.rows) < Len(df.rows)
    /\ \E i \in 1..Len(df.rows) : df.rows[i].checkin_date.d = sel.d1

\* ------------------------------------------------------------------ C2
RECURSIVE SumOver(_, _)
SumOver(I, f) ==
    IF I = {} THEN 0
    ELSE LET i == CHOOSE x \in I : TRUE IN f[i] + SumOver(I \ {i}, f)

Rows(t) == 1..Len(t.rows)
Abs(x) == IF x < 0 THEN -x ELSE x

\* h is n / d rounded to the nearest hundredth.
IsRounded2(h, n, d) == 2 * Abs(h * d - 100 * n) <= d

RatioKpis(k) ==
    {k.occupancy_rate, k.adr, k.revpar, k.lead_time, k.average_length_of_stay}
    \cup {k.ratings[c] : c \in RatingCols}
    \cup (IF "cancellation_rate" \in DOMAIN k THEN {k.cancellation_rate} ELSE {})

\* C2: when the filters select zero rows, calculate_kpis raises no error
\* and no ratio KPI it returns is NaN.
C2_EmptyTableNoNaN ==
    /\ err # "ZeroDivisionError"
    /\ (pc = "kpis" /\ filtered_df.rows = <<>>) =>
            \A x \in RatioKpis(kpis) : x.k # "nan"

\* ------------------------------------------------------------------ C3
\* C3: in every interaction the table main() filters is the table of the
\* first load, whatever earlier interactions did to their filtered tables
\* and whatever became of the files since; the files are read once.
C3_BaseTableIsFirstLoad ==
    /\ reads <= 1
    /\ pc # "idle" => df = firstLoad
    /\ cache.set => cache.val = firstLoad

\* A later interaction has loaded a non-empty base table although the
\* files have been emptied since the first load.
C3_Witness ==
    /\ pc = "filtered"
    /\ files.bookings = <<>>
    /\ df.rows # <<>>
    /\ reads = 1

\* ------------------------------------------------------------------ C4
AfterKpis == {"kpis", "shown", "fig1", "fig2", "fig3", "fig4", "fig5", "fig6", "fig7"}

\* C4: after calculate_kpis and the plot_* functions have returned, the
\* table they were given is as main() filtered it: df's columns, and every
\* row a row of df.
C4_NoInputMutation ==
    pc \in AfterKpis =>
        /\ filtered_df.cols = df.cols
        /\ \A j \in Rows(filtered_df) : \E i \in Rows(df) : filtered_df.rows[j] = df.rows[i]

\* ------------------------------------------------------------------ C5
NightsNotCancelled(t, q) ==
    SumOver({i \in Rows(t) : t.rows[i].platform = q /\ t.rows[i].status # "cancelled"},
            [i \in Rows(t) |-> t.rows[i].nights])

\* C5: in both variants the nights charted per platform are the nights of
\* that platform's rows that are not cancelled.
C5_NightsExcludeCancelled ==
    pc = "fig3" =>
        \A e \in Range(charts.fig3) : e.nights = NightsNotCancelled(filtered_df, e.platform)

\* ------------------------------------------------------------------ C6
CancelledCount(t) == Cardinality({i \in Rows(t) : t.rows[i].status = "cancelled"})

\* C6: for a non-empty table cancellation_rate is the cancelled share of
\* the rows in percent, rounded to 2 decimals: 0 with no cancelled row,
\* 100 with only cancelled rows, always within [0, 100].
C6_CancellationRate ==
    (variant = "T" /\ pc = "kpis") =>
        LET n == Len(filtered_df.rows)
            c == CancelledCount(filtered_df)
            r == kpis.cancellation_rate
        IN  /\ n > 0
            /\ r.k = "num"
            /\ r.v >= 0 /\ r.v <= 100 * 100
            /\ c = 0 => r.v = 0
            /\ c = n => r.v = 100 * 100
            /\ IsRounded2(r.v, 100 * c, n)

\* The rate of a table with cancelled and other rows has been computed.
C6_Witness ==
    /\ variant = "T"
    /\ pc = "kpis"
    /\ CancelledCount(filtered_df) > 0
    /\ CancelledCount(filtered_df) < Len(filtered_df.rows)

\* ------------------------------------------------------------------ C7
RatedRows(t, c) == {i \in Rows(t) : t.rows[i][c].k # "nan"}

\* C7: each rating average is the mean over the rows that have a review,
\* and is 0 when the column is absent or holds no review at all.
C7_RatingAverages ==
    pc = "kpis" =>
        \A c \in RatingCols :
            LET rated == IF c \in filtered_df.cols THEN RatedRows(filtered_df, c) ELSE {}
                total == SumOver(rated, [i \in Rows(filtered_df) |-> filtered_df.rows[i][c].v])
            IN  /\ kpis.ratings[c].k = "num"
                /\ IF rated = {} THEN kpis.ratings[c].v = 0
                   ELSE IsRounded2(kpis.ratings[c].v, total, Cardinality(rated))

\* ------------------------------------------------------------------ C8
\* C8: ADR is total_revenue / total_nights rounded to 2 decimals when
\* total_nights > 0 and 0 when total_nights = 0; it is a number (no
\* division by zero took place) and never negative.
C8_Adr ==
    pc = "kpis" =>
        LET n == SumOver(Rows(filtered_df), [i \in Rows(filtered_df) |-> filtered_df.rows[i].nights])
            r == SumOver(Rows(filtered_df), [i \in Rows(filtered_df) |-> filtered_df.rows[i].revenue])
        IN  /\ kpis.adr.k = "num"
            /\ kpis.adr.v >= 0
            /\ n = 0 => kpis.adr.v = 0
            /\ n > 0 => IsRounded2(kpis.adr.v, r, n)
            /\ kpis.total_revenue = r

\* An ADR that needed rounding has been computed.
C8_Witness ==
    /\ pc = "kpis"
    /\ TotalNights(filtered_df) > 0
    /\ kpis.adr.k = "num"
    /\ kpis.adr.v * TotalNights(filtered_df) # 100 * TotalRevenue(filtered_df)

\* ------------------------------------------------------------------ C9
RevenueOf(t, q) ==
    SumOver({i \in Rows(t) : t.rows[i].platform = q},
            [i \in Rows(t) |-> t.rows[i].revenue])

RevenueSeriesOk(s, t, total) ==
    /\ {s[i].platform : i \in 1..Len(s)} = {t.rows[i].platform : i \in Rows(t)}
    /\ \A i, j \in 1..Len(s) : i < j => LabelRank[s[i].platform] < LabelRank[s[j].platform]
    /\ \A i \in 1..Len(s) : s[i].revenue = RevenueOf(t, s[i].platform)
    /\ SumOver(1..Len(s), [i \in 1..Len(s) |-> s[i].revenue]) = total

\* C9: the revenue-by-platform series has one entry per platform present,
\* each the revenue of all rows of that platform (cancelled included), in
\* the order of the platform labels, and sums to total_revenue.
C9_RevenueByPlatform ==
    /\ (variant = "G" /\ pc = "fig1") =>
            RevenueSeriesOk(charts.fig1, filtered_df, kpis.total_revenue)
    /\ pc = "fig2" => RevenueSeriesOk(charts.fig2, filtered_df, kpis.total_revenue)

\* The series of a table with two platforms, the later label first, and a
\* cancelled row with revenue has been computed.
C9_Witness ==
    /\ variant = "G"
    /\ pc = "fig1"
    /\ Len(charts.fig1) = 2
    /\ filtered_df.rows[1].platform = "vrbo"
    /\ \E i \in Rows(filtered_df) :
          filtered_df.rows[i].status = "cancelled" /\ filtered_df.rows[i].revenue > 0

\* ------------------------------------------------------------------ C10
GroupNotCancelled(t, e, c) ==
    SumOver({i \in Rows(t) : /\ t.rows[i].month = e.month
                             /\ t.rows[i].property_name = e.property_name
                             /\ t.rows[i].status # "cancelled"},
            [i \in Rows(t) |-> t.rows[i][c]])

\* C10: in variant T's chart sequence the nights of the monthly occupancy
\* series and the nights and revenue of the monthly ADR series come only
\* from the rows that are not cancelled.
C10_MonthlyExcludeCancelled ==
    (variant = "T" /\ pc = "fig7") =>
        /\ \A e \in Range(charts.fig6) : e.nights = GroupNotCancelled(filtered_df, e, "nights")
        /\ \A e \in Range(charts.fig7) :
              /\ e.nights = GroupNotCancelled(filtered_df, e, "nights")
              /\ e.revenue = GroupNotCancelled(filtered_df, e, "revenue")

\* ------------------------------------------------------------------ C11
DatesInOrder(t) ==
    \A i \in Rows(t) : t.rows[i].checkin_date.d <= t.rows[i].checkout_date.d
LastCheckout(t) ==
    CHOOSE d \in {t.rows[i].checkout_date.d : i \in Rows(t)} :
        \A i \in Rows(t) : t.rows[i].checkout_date.d <= d
FirstCheckin(t) ==
    CHOOSE d \in {t.rows[i].checkin_date.d : i \in Rows(t)} :
        \A i \in Rows(t) : d <= t.rows[i].checkin_date.d
PropertyCount(t) == Cardinality({t.rows[i].property_name : i \in Rows(t)})

\* C11: for a non-empty table whose rows all have checkin_date <=
\* checkout_date, total_available_nights is at least 1 (1 for a single-day
\* span of one property), so occupancy_rate and RevPAR are numbers: the
\* division by total_available_nights is not a division by zero.
C11_AvailableNightsPositive ==
    (pc = "kpis" /\ filtered_df.rows # <<>> /\ DatesInOrder(filtered_df)) =>
        LET a == TotalAvailableNights(filtered_df)
            nights == SumOver(Rows(filtered_df),
                              [i \in Rows(filtered_df) |-> filtered_df.rows[i].nights])
        IN  /\ a.k = "int"
            /\ a.v >= 1
            /\ a.v >= PropertyCount(filtered_df)
            /\ (LastCheckout(filtered_df) = FirstCheckin(filtered_df)
                /\ PropertyCount(filtered_df) = 1) => a.v = 1
            /\ kpis.occupancy_rate.k = "num"
            /\ kpis.revpar.k = "num"
            /\ IsRounded2(kpis.occupancy_rate.v, 100 * nights, a.v)

\* The KPIs of a single-day span of one property, with nights booked, have
\* been computed.
C11_Witness ==
    /\ pc = "kpis"
    /\ filtered_df.rows # <<>>
    /\ DatesInOrder(filtered_df)
    /\ LastCheckout(filtered_df) = FirstCheckin(filtered_df)
    /\ PropertyCount(filtered_df) = 1
    /\ TotalNights(filtered_df) > 0
    /\ kpis.occupancy_rate.k = "num"
====
